---- MODULE Spec2Model ----
(***************************************************************************)
(* A model of the "trust" crate: the payoff matrix, the scoring machines,  *)
(* the built-in players, the one-versus-one Match, the Arena and the       *)
(* genetic strategy that moves the Arena from one generation to the next.  *)
(*                                                                         *)
(* Rust vectors are sequences; Rust indices are 0-based and are kept       *)
(* 0-based in the operators' parameters (v[i + 1] reads element i).        *)
(* Option<bool> is the empty sequence (None) or a one-element sequence.    *)
(* An operation that can panic returns a record with an ok flag.           *)
(***************************************************************************)
EXTENDS Integers, Sequences, FiniteSets, TLC

VARIABLES
    ranked,     \* SpecSelect: the (type, score) list handed to the selection rule
    rule,       \* SpecSelect: the GeneticStrategy applied
    result,     \* SpecSelect: <<>> before apply_to_vec, <<its outcome>> after
    args,       \* SpecArena: the arguments of Arena::new
    arena,      \* SpecArena: the Arena's fields
    status,     \* SpecArena: "args", "ok", "err" (UnknownPlayer) or "panic"
    step,       \* SpecArena: what the last Arena::play did (its population, its pairings)
    ovo,        \* SpecMatch: the Match (machine and players)
    seen,       \* SpecMatch: the arguments of the last round's memorize_last_game calls
    played,     \* SpecMatch: rounds played so far
    player,     \* SpecPlayer: one player
    hist,       \* SpecPlayer: the consents it memorized since construction or forget_games
    mach,       \* SpecMachine: a Machine
    tally,      \* SpecMachine: the rewards its play calls returned since the last
                \* reset_scores, summed, and the number of those calls
    call,       \* SpecMachine: <<>> or <<the last call: its consents, what it returned
                \* and the scores before it>>
    fault       \* SpecCounter: "none", or what an overflowing increment did:
                \* "panic" (overflow checks on) or "wrapped" (overflow checks off)

vars ==
    <<ranked, rule, result, args, arena, status, step, ovo, seen, played, player, hist,
      mach, tally, call, fault>>

selectVars == <<ranked, rule, result>>
arenaVars == <<args, arena, status, step>>
matchVars == <<ovo, seen, played>>
playerVars == <<player, hist>>
machineVars == <<mach, tally, call>>
counterVars == <<fault>>

----------------------------------------------------------------------------
(* Bounds of the model. *)

\* longest list handed to the selection rule in SpecSelect
MaxLen == 3
\* largest to_remove of a CullingElitism
MaxRemove == 3
\* largest to_add of a CullingElitism
MaxAdd == 2
\* scores of SpecSelect's ranked entries are 0..MaxScore
MaxScore == 1
\* type ids of SpecSelect's ranked entries are 0..MaxTypeId
MaxTypeId == 2
\* largest initial population of SpecArena
MaxPop == 2
\* Arena::play is taken while the population is at most this long
MaxGrown == 3
\* the longest round count of an Arena
MaxRounds == 5
\* rounds of a Match in SpecMatch
MaxMatchRounds == 5
\* observations a player memorizes in SpecPlayer
MaxHist == 6
\* the f32 chances of the MachineRandomizer are k / ChanceSteps
ChanceSteps == 2
\* play calls of a Machine between two reset_scores in SpecMachine
MaxPlays == 4
\* usize::MAX, with usize scaled down to two bits
UsizeMax == 3

Min(a, b) == IF a <= b THEN a ELSE b

----------------------------------------------------------------------------
(* worm_bools.rs *)

\* RiseOnlyBool::rise_if: the new value of the boolean
\* a plain assignment in place of rise_if
rise_if_assign(self, value) == value

rise_if(self, value) == IF ~self /\ value THEN value ELSE self

----------------------------------------------------------------------------
(* players.rs *)

CopyCatDefault == [kind |-> "CopyCat", last_enemy_consent |-> <<>>]

AllCooperateDefault == [kind |-> "AllCooperate"]

AllCheatDefault == [kind |-> "AllCheat"]

GrudgerDefault == [kind |-> "Grudger", been_cheated |-> FALSE]

DetectiveNew(initial_strategy) ==
    [kind |-> "Detective",
     next_strategy |-> IF initial_strategy = <<>> THEN TRUE ELSE initial_strategy[1],
     analysing_strategy |-> initial_strategy,
     analysing_stage |-> 1,
     been_cheated_in_analysing |-> FALSE]

DetectiveDefault == DetectiveNew(<<TRUE, FALSE, TRUE, TRUE>>)

KindCopyCatNew(mistakes_allowed) ==
    [kind |-> "KindCopyCat", mistakes_allowed |-> mistakes_allowed, cheated_in_row |-> 0]

\* a default KindCopyCat allowing two mistakes
KindCopyCatDefaultOfTwo == KindCopyCatNew(2)

KindCopyCatDefault == KindCopyCatNew(1)

SimpletonDefault == [kind |-> "Simpleton", next_move |-> TRUE]

\* cooperation_consent with KindCopyCat retaliating one mistake early
cooperation_consent_strict(self) ==
    CASE self.kind = "CopyCat" ->
            IF self.last_enemy_consent = <<>> THEN TRUE ELSE self.last_enemy_consent[1]
      [] self.kind = "AllCooperate" -> TRUE
      [] self.kind = "AllCheat" -> FALSE
      [] self.kind = "Grudger" -> ~self.been_cheated
      [] self.kind = "Detective" -> self.next_strategy
      [] self.kind = "KindCopyCat" -> self.cheated_in_row < self.mistakes_allowed
      [] self.kind = "Simpleton" -> self.next_move

cooperation_consent(self) ==
    CASE self.kind = "CopyCat" ->
            IF self.last_enemy_consent = <<>> THEN TRUE ELSE self.last_enemy_consent[1]
      [] self.kind = "AllCooperate" -> TRUE
      [] self.kind = "AllCheat" -> FALSE
      [] self.kind = "Grudger" -> ~self.been_cheated
      [] self.kind = "Detective" -> self.next_strategy
      [] self.kind = "KindCopyCat" -> self.cheated_in_row <= self.mistakes_allowed
      [] self.kind = "Simpleton" -> self.next_move

\* memorize_last_game with CopyCat keeping its own consent, not the enemy's
memorize_last_game_own(self, last_consents, last_rewards) ==
    CASE self.kind = "CopyCat" ->
            [self EXCEPT !.last_enemy_consent = <<last_consents[1]>>]
      [] self.kind = "AllCooperate" -> self
      [] self.kind = "AllCheat" -> self
      [] self.kind = "Grudger" ->
            [self EXCEPT !.been_cheated = rise_if(self.been_cheated, ~last_consents[2])]
      [] self.kind = "Detective" ->
            IF self.analysing_stage < Len(self.analysing_strategy)
            THEN [self EXCEPT
                    !.been_cheated_in_analysing =
                        rise_if(self.been_cheated_in_analysing, ~last_consents[2]),
                    !.next_strategy = self.analysing_strategy[self.analysing_stage + 1],
                    !.analysing_stage = self.analysing_stage + 1]
            ELSE [self EXCEPT
                    !.next_strategy = self.been_cheated_in_analysing /\ last_consents[2]]
      [] self.kind = "KindCopyCat" ->
            IF last_consents[2]
            THEN [self EXCEPT !.cheated_in_row = 0]
            ELSE IF cooperation_consent(self)
                 THEN [self EXCEPT !.cheated_in_row =
                                       (self.cheated_in_row + 1) % (UsizeMax + 1)]
                 ELSE self
      [] self.kind = "Simpleton" ->
            [self EXCEPT !.next_move =
                IF last_consents[2] THEN last_consents[1] ELSE ~last_consents[1]]

\* memorize_last_game with Simpleton going by what it consented to, not by
\* the own consent that the round reports
memorize_last_game_intent(self, last_consents, last_rewards) ==
    CASE self.kind = "CopyCat" ->
            [self EXCEPT !.last_enemy_consent = <<last_consents[2]>>]
      [] self.kind = "AllCooperate" -> self
      [] self.kind = "AllCheat" -> self
      [] self.kind = "Grudger" ->
            [self EXCEPT !.been_cheated = rise_if(self.been_cheated, ~last_consents[2])]
      [] self.kind = "Detective" ->
            IF self.analysing_stage < Len(self.analysing_strategy)
            THEN [self EXCEPT
                    !.been_cheated_in_analysing =
                        rise_if(self.been_cheated_in_analysing, ~last_consents[2]),
                    !.next_strategy = self.analysing_strategy[self.analysing_stage + 1],
                    !.analysing_stage = self.analysing_stage + 1]
            ELSE [self EXCEPT
                    !.next_strategy = self.been_cheated_in_analysing /\ last_consents[2]]
      [] self.kind = "KindCopyCat" ->
            IF last_consents[2]
            THEN [self EXCEPT !.cheated_in_row = 0]
            ELSE IF cooperation_consent(self)
                 THEN [self EXCEPT !.cheated_in_row =
                                       (self.cheated_in_row + 1) % (UsizeMax + 1)]
                 ELSE self
      [] self.kind = "Simpleton" ->
            [self EXCEPT !.next_move =
                IF last_consents[2] THEN cooperation_consent(self)
                                    ELSE ~cooperation_consent(self)]

\* last_consents is <<own, enemy>>; no built-in player reads last_rewards.
\* cheated_in_row += 1 is written as it computes with overflow checks off (it
\* wraps); increment_overflows tells when it panics with the checks on
memorize_last_game(self, last_consents, last_rewards) ==
    CASE self.kind = "CopyCat" ->
            [self EXCEPT !.last_enemy_consent = <<last_consents[2]>>]
      [] self.kind = "AllCooperate" -> self
      [] self.kind = "AllCheat" -> self
      [] self.kind = "Grudger" ->
            [self EXCEPT !.been_cheated = rise_if(self.been_cheated, ~last_consents[2])]
      [] self.kind = "Detective" ->
            IF self.analysing_stage < Len(self.analysing_strategy)
            THEN [self EXCEPT
                    !.been_cheated_in_analysing =
                        rise_if(self.been_cheated_in_analysing, ~last_consents[2]),
                    !.next_strategy = self.analysing_strategy[self.analysing_stage + 1],
                    !.analysing_stage = self.analysing_stage + 1]
            ELSE [self EXCEPT
                    !.next_strategy = self.been_cheated_in_analysing /\ last_consents[2]]
      [] self.kind = "KindCopyCat" ->
            IF last_consents[2]
            THEN [self EXCEPT !.cheated_in_row = 0]
            ELSE IF cooperation_consent(self)
                 THEN [self EXCEPT !.cheated_in_row =
                                       (self.cheated_in_row + 1) % (UsizeMax + 1)]
                 ELSE self
      [] self.kind = "Simpleton" ->
            [self EXCEPT !.next_move =
                IF last_consents[2] THEN last_consents[1] ELSE ~last_consents[1]]

\* self.cheated_in_row += 1 of KindCopyCat is reached with the counter at usize::MAX
increment_overflows(self, last_consents) ==
    /\ self.kind = "KindCopyCat"
    /\ ~last_consents[2]
    /\ cooperation_consent(self)
    /\ self.cheated_in_row = UsizeMax

\* forget_games with Detective keeping been_cheated_in_analysing
forget_games_keeps_cheated(self) ==
    CASE self.kind = "CopyCat" -> CopyCatDefault
      [] self.kind = "AllCooperate" -> self
      [] self.kind = "AllCheat" -> self
      [] self.kind = "Grudger" -> GrudgerDefault
      [] self.kind = "Detective" ->
            [self EXCEPT
                !.next_strategy = IF self.analysing_strategy = <<>>
                                  THEN TRUE ELSE self.analysing_strategy[1],
                !.analysing_stage = 1]
      [] self.kind = "KindCopyCat" -> [self EXCEPT !.cheated_in_row = 0]
      [] self.kind = "Simpleton" -> SimpletonDefault

forget_games(self) ==
    CASE self.kind = "CopyCat" -> CopyCatDefault
      [] self.kind = "AllCooperate" -> self
      [] self.kind = "AllCheat" -> self
      [] self.kind = "Grudger" -> GrudgerDefault
      [] self.kind = "Detective" ->
            [self EXCEPT
                !.next_strategy = IF self.analysing_strategy = <<>>
                                  THEN TRUE ELSE self.analysing_strategy[1],
                !.analysing_stage = 1,
                !.been_cheated_in_analysing = FALSE]
      [] self.kind = "KindCopyCat" -> [self EXCEPT !.cheated_in_row = 0]
      [] self.kind = "Simpleton" -> SimpletonDefault

----------------------------------------------------------------------------
(* matrices.rs *)

\* a default matrix that pays the two seats differently
GameMatrixDefaultLopsided ==
    [cc |-> <<2, 2>>, cd |-> <<-1, 3>>, dc |-> <<3, -2>>, dd |-> <<0, 0>>]

GameMatrixDefault ==
    [cc |-> <<2, 2>>, cd |-> <<-1, 3>>, dc |-> <<3, -1>>, dd |-> <<0, 0>>]

\* get_for_consents with the rewards of cd and dc exchanged
get_for_consents_transposed(self, consents) ==
    CASE consents = <<TRUE, TRUE>> -> self.cc
      [] consents = <<TRUE, FALSE>> -> self.dc
      [] consents = <<FALSE, TRUE>> -> self.cd
      [] consents = <<FALSE, FALSE>> -> self.dd

get_for_consents(self, consents) ==
    CASE consents = <<TRUE, TRUE>> -> self.cc
      [] consents = <<TRUE, FALSE>> -> self.cd
      [] consents = <<FALSE, TRUE>> -> self.dc
      [] consents = <<FALSE, FALSE>> -> self.dd

----------------------------------------------------------------------------
(* machines.rs, traits.rs (MachineTrait) *)

MachineNew(matrix) == [kind |-> "Machine", matrix |-> matrix, scores |-> <<0, 0>>]

MachineDefault == MachineNew(GameMatrixDefault)

MachineRandomizerNew(base, consent_falsify_chance, random_consenter) ==
    [kind |-> "MachineRandomizer", base |-> base,
     consent_falsify_chance |-> consent_falsify_chance,
     random_consenter |-> random_consenter]

\* the consents a MachineRandomizer scores: chances are the two f32 draws
randomized_consents(self, consents, chances) ==
    << IF consents[1] THEN chances[1] > self.consent_falsify_chance[1]
                      ELSE chances[1] <= self.random_consenter[1],
       IF consents[2] THEN chances[2] > self.consent_falsify_chance[2]
                      ELSE chances[2] <= self.random_consenter[2] >>

play_off_record(self, consents, chances) ==
    IF self.kind = "Machine"
    THEN get_for_consents(self.matrix, consents)
    ELSE get_for_consents(self.base.matrix, randomized_consents(self, consents, chances))

scores(self) == IF self.kind = "Machine" THEN self.scores ELSE self.base.scores

\* reset_scores leaving the totals as they are
reset_scores_kept(self) == self

reset_scores(self) ==
    IF self.kind = "Machine"
    THEN [self EXCEPT !.scores = <<0, 0>>]
    ELSE [self EXCEPT !.base.scores = <<0, 0>>]

\* record_scores adding each reward to the other side's total
record_scores_crossed(self, last_rewards) ==
    IF self.kind = "Machine"
    THEN [self EXCEPT !.scores = <<self.scores[1] + last_rewards[2],
                                   self.scores[2] + last_rewards[1]>>]
    ELSE [self EXCEPT !.base.scores = <<self.base.scores[1] + last_rewards[2],
                                        self.base.scores[2] + last_rewards[1]>>]

record_scores(self, last_rewards) ==
    IF self.kind = "Machine"
    THEN [self EXCEPT !.scores = <<self.scores[1] + last_rewards[1],
                                   self.scores[2] + last_rewards[2]>>]
    ELSE [self EXCEPT !.base.scores = <<self.base.scores[1] + last_rewards[1],
                                        self.base.scores[2] + last_rewards[2]>>]

\* MachineTrait::play: the machine after the round and the rewards returned
machine_play(self, consents, chances) ==
    LET last_rewards == play_off_record(self, consents, chances)
    IN [machine |-> record_scores(self, last_rewards), rewards |-> last_rewards]

----------------------------------------------------------------------------
(* matches.rs: Match *)

\* match_round handing the second player the first player's side of the round
match_round_one_side(self, chances) ==
    LET last_consents == <<cooperation_consent(self.players[1]),
                           cooperation_consent(self.players[2])>>
        m == machine_play(self.machine, last_consents, chances)
        last_rewards == m.rewards
    IN [machine |-> m.machine,
        to_p2 |-> [consents |-> last_consents, rewards |-> last_rewards],
        to_p1 |-> [consents |-> last_consents, rewards |-> last_rewards]]

\* the two memorize_last_game calls of one Match::play, with the machine after it
match_round(self, chances) ==
    LET last_consents == <<cooperation_consent(self.players[1]),
                           cooperation_consent(self.players[2])>>
        m == machine_play(self.machine, last_consents, chances)
        last_rewards == m.rewards
    IN [machine |-> m.machine,
        to_p2 |-> [consents |-> <<last_consents[2], last_consents[1]>>,
                   rewards |-> <<last_rewards[2], last_rewards[1]>>],
        to_p1 |-> [consents |-> last_consents, rewards |-> last_rewards]]

match_play(self, chances) ==
    LET r == match_round(self, chances)
    IN [machine |-> r.machine,
        players |-> <<memorize_last_game(self.players[1], r.to_p1.consents, r.to_p1.rewards),
                      memorize_last_game(self.players[2], r.to_p2.consents, r.to_p2.rewards)>>]

----------------------------------------------------------------------------
(* genetics.rs *)

Keep == [kind |-> "Keep"]

CullingElitism(to_remove, to_add) ==
    [kind |-> "CullingElitism", to_remove |-> to_remove, to_add |-> to_add]

\* Vec::swap_remove(i): element i is replaced by the last one; panics when i >= len
swap_remove(v, i) ==
    IF i >= Len(v)
    THEN [ok |-> FALSE, vec |-> v]
    ELSE [ok |-> TRUE,
          vec |-> SubSeq([v EXCEPT ![i + 1] = v[Len(v)]], 1, Len(v) - 1)]

\* for i in i..to_remove { sorted_types.swap_remove(i); }
RECURSIVE remove_loop(_, _, _)
remove_loop(sorted_types, i, to_remove) ==
    IF i >= to_remove
    THEN [ok |-> TRUE, vec |-> sorted_types]
    ELSE LET r == swap_remove(sorted_types, i)
         IN IF r.ok THEN remove_loop(r.vec, i + 1, to_remove) ELSE r

\* apply_to_vec cloning the position of the best entry instead of its type
apply_to_vec_best_position(self, sorted_types) ==
    IF sorted_types = <<>>
    THEN [ok |-> TRUE, vec |-> <<>>]
    ELSE IF self.kind = "Keep"
    THEN [ok |-> TRUE, vec |-> sorted_types]
    ELSE LET best == Len(sorted_types) - 1
             to_remove == IF Len(sorted_types) <= self.to_remove
                          THEN Len(sorted_types) ELSE self.to_remove
             removed == remove_loop(sorted_types, 0, to_remove)
         IN IF removed.ok
            THEN [ok |-> TRUE, vec |-> removed.vec \o [k \in 1..self.to_add |-> best]]
            ELSE removed

\* apply_to_vec without the early return on an empty list: last().unwrap() panics
apply_to_vec_unchecked(self, sorted_types) ==
    IF self.kind = "Keep"
    THEN [ok |-> TRUE, vec |-> sorted_types]
    ELSE IF sorted_types = <<>>
    THEN [ok |-> FALSE, vec |-> sorted_types]
    ELSE LET best == sorted_types[Len(sorted_types)]
             to_remove == IF Len(sorted_types) <= self.to_remove
                          THEN Len(sorted_types) ELSE self.to_remove
             removed == remove_loop(sorted_types, 0, to_remove)
         IN IF removed.ok
            THEN [ok |-> TRUE, vec |-> removed.vec \o [k \in 1..self.to_add |-> best]]
            ELSE removed

\* apply_to_vec with Keep dropping the worst entry
apply_to_vec_keep_drops(self, sorted_types) ==
    IF sorted_types = <<>>
    THEN [ok |-> TRUE, vec |-> <<>>]
    ELSE IF self.kind = "Keep"
    THEN [ok |-> TRUE, vec |-> Tail(sorted_types)]
    ELSE LET best == sorted_types[Len(sorted_types)]
             to_remove == IF Len(sorted_types) <= self.to_remove
                          THEN Len(sorted_types) ELSE self.to_remove
             removed == remove_loop(sorted_types, 0, to_remove)
         IN IF removed.ok
            THEN [ok |-> TRUE, vec |-> removed.vec \o [k \in 1..self.to_add |-> best]]
            ELSE removed

\* apply_to_vec adding the loop's counter in place of the best type
apply_to_vec_adds_counter(self, sorted_types) ==
    IF sorted_types = <<>>
    THEN [ok |-> TRUE, vec |-> <<>>]
    ELSE IF self.kind = "Keep"
    THEN [ok |-> TRUE, vec |-> sorted_types]
    ELSE LET to_remove == IF Len(sorted_types) <= self.to_remove
                          THEN Len(sorted_types) ELSE self.to_remove
             removed == remove_loop(sorted_types, 0, to_remove)
         IN IF removed.ok
            THEN [ok |-> TRUE, vec |-> removed.vec \o [k \in 1..self.to_add |-> k - 1]]
            ELSE removed

\* ok is FALSE when the call panics; vec is then the vector at the panic
apply_to_vec(self, sorted_types) ==
    IF sorted_types = <<>>
    THEN [ok |-> TRUE, vec |-> <<>>]
    ELSE IF self.kind = "Keep"
    THEN [ok |-> TRUE, vec |-> sorted_types]
    ELSE LET best == sorted_types[Len(sorted_types)]
             to_remove == IF Len(sorted_types) <= self.to_remove
                          THEN Len(sorted_types) ELSE self.to_remove
             removed == remove_loop(sorted_types, 0, to_remove)
         IN IF removed.ok
            THEN [ok |-> TRUE, vec |-> removed.vec \o [k \in 1..self.to_add |-> best]]
            ELSE removed

----------------------------------------------------------------------------
(* matches.rs: Arena *)

\* the machines of the Arenas modelled here are base Machines, which draw no chances
no_chances == <<0, 0>>

\* for _ in 0..self.rounds { ovo.play(); }: the Match after it and the plays made
RECURSIVE play_rounds(_, _, _)
play_rounds(match, rounds, done) ==
    IF done >= rounds
    THEN [ovo |-> match, rounds |-> done]
    ELSE play_rounds(match_play(match, no_chances), rounds, done + 1)

\* arena_new with the bound check off by one: > for >=
arena_new_off_by_one(machine, player_construtors, players, rounds, strategy) ==
    IF \E k \in 1..Len(players) : players[k] > Len(player_construtors)
    THEN [ok |-> FALSE, err |-> "UnknownPlayer"]
    ELSE [ok |-> TRUE,
          arena |-> [player_constructors |->
                         [k \in 1..Len(player_construtors) |->
                             forget_games(player_construtors[k])],
                     scores |-> <<>>,
                     strategy |-> strategy,
                     machine |-> machine,
                     rounds |-> rounds,
                     players |-> players]]

\* Returns the arena or Err if players not in 0..player_constructors.len()
arena_new(machine, player_construtors, players, rounds, strategy) ==
    IF \E k \in 1..Len(players) : players[k] >= Len(player_construtors)
    THEN [ok |-> FALSE, err |-> "UnknownPlayer"]
    ELSE [ok |-> TRUE,
          arena |-> [player_constructors |->
                         [k \in 1..Len(player_construtors) |->
                             forget_games(player_construtors[k])],
                     scores |-> <<>>,
                     strategy |-> strategy,
                     machine |-> machine,
                     rounds |-> rounds,
                     players |-> players]]

\* first_j with the inner loop starting at i itself
first_j_self(i) == i

\* for j in (i + 1)..self.players.len(): the first j of row i
first_j(i) == i + 1

\* add_results with the two sides of the results exchanged
add_results_swapped(scores_, i, j, ovo_results) ==
    [scores_ EXCEPT ![i + 1] = @ + ovo_results[2], ![j + 1] = @ + ovo_results[1]]

\* add_results without the second line: position j gets nothing
add_results_first_only(scores_, i, j, ovo_results) ==
    [scores_ EXCEPT ![i + 1] = @ + ovo_results[1]]

\* self.scores[i] += ovo_results.0; self.scores[j] += ovo_results.1;
add_results(scores_, i, j, ovo_results) ==
    [scores_ EXCEPT ![i + 1] = @ + ovo_results[1], ![j + 1] = @ + ovo_results[2]]

\* the end of the inner loop's body: the results are read and memorized
memorize_results(acc, i, j, done, ovo_results) ==
    [ok |-> TRUE,
     machine |-> done.ovo.machine,
     scores |-> add_results(acc.scores, i, j, ovo_results),
     pairings |-> Append(acc.pairings,
                         [i |-> i, j |-> j, rounds |-> done.rounds,
                          results |-> ovo_results])]

\* ovo.machine.scores() of the Match that was played
read_results(acc, i, j, done) ==
    memorize_results(acc, i, j, done, scores(done.ovo.machine))

\* the body of the inner loop of Arena::play: positions i and j play one Match;
\* acc carries the machine, the scores, the pairings played so far and whether
\* an index was out of bounds (a panic)
pairing(self, acc, i, j) ==
    IF self.players[i + 1] >= Len(self.player_constructors)
       \/ self.players[j + 1] >= Len(self.player_constructors)
    THEN [acc EXCEPT !.ok = FALSE]
    ELSE read_results(acc, i, j,
            play_rounds([machine |-> reset_scores(acc.machine),
                         players |-> <<self.player_constructors[self.players[i + 1] + 1],
                                       self.player_constructors[self.players[j + 1] + 1]>>],
                        self.rounds, 0))

\* the two nested loops of Arena::play from position (i, j) on
RECURSIVE round_robin(_, _, _, _)
round_robin(self, acc, i, j) ==
    IF ~acc.ok \/ i >= Len(self.players)
    THEN acc
    ELSE round_robin(self,
            IF j >= Len(self.players) THEN acc ELSE pairing(self, acc, i, j),
            IF j >= Len(self.players) THEN i + 1 ELSE i,
            IF j >= Len(self.players) THEN first_j(i + 1) ELSE j + 1)

\* sort_by_key putting an entry before the earlier entries of its own score
RECURSIVE sort_by_key_unstable(_)
sort_by_key_unstable(t) ==
    IF t = <<>>
    THEN <<>>
    ELSE LET x == t[Len(t)]
             front == sort_by_key_unstable(SubSeq(t, 1, Len(t) - 1))
             Before(e) == e[2] < x[2]
             NotBefore(e) == e[2] >= x[2]
         IN SelectSeq(front, Before) \o <<x>> \o SelectSeq(front, NotBefore)

\* t.sort_by_key(|(_, v)| v.clone()): a stable sort, ascending in the score
RECURSIVE sort_by_key(_)
sort_by_key(t) ==
    IF t = <<>>
    THEN <<>>
    ELSE LET x == t[Len(t)]
             front == sort_by_key(SubSeq(t, 1, Len(t) - 1))
             NotAfter(e) == e[2] <= x[2]
             After(e) == e[2] > x[2]
         IN SelectSeq(front, NotAfter) \o <<x>> \o SelectSeq(front, After)

\* the (type, score) list of Arena::play, sorted
sorted_pairs(players, scores_) ==
    sort_by_key([k \in 1..Len(scores_) |-> <<players[k], scores_[k]>>])

types_of(t) == [k \in 1..Len(t) |-> t[k][1]]

\* self.players = self.strategy.apply_to_vec(sorted_types): next is its outcome
replace_players(played_, rr, next) ==
    IF next.ok
    THEN [ok |-> TRUE, arena |-> [played_ EXCEPT !.players = next.vec],
          pairings |-> rr.pairings]
    ELSE [ok |-> FALSE, arena |-> played_, pairings |-> rr.pairings]

\* the sort and the selection of Arena::play, after the round robin rr
select_next(self, played_, rr) ==
    IF ~rr.ok
    THEN [ok |-> FALSE, arena |-> played_, pairings |-> rr.pairings]
    ELSE replace_players(played_, rr,
            apply_to_vec(self.strategy,
                         types_of(sorted_pairs(self.players, rr.scores))))

\* after_round_robin keeping the scores in the sorted order of the new population
after_round_robin_sorted_scores(self, rr) ==
    select_next(self,
        [self EXCEPT !.machine = rr.machine,
                     !.scores = [k \in 1..Len(rr.scores) |->
                                    sorted_pairs(self.players, rr.scores)[k][2]]],
        rr)

\* the fields written before the sort (matches.rs:127 and 132-153) and the rest
after_round_robin(self, rr) ==
    select_next(self, [self EXCEPT !.machine = rr.machine, !.scores = rr.scores], rr)

\* Arena::play: ok is FALSE when it panics; arena is the Arena it leaves
arena_play(self) ==
    after_round_robin(self,
        round_robin(self,
            [ok |-> TRUE, machine |-> self.machine,
             scores |-> [k \in 1..Len(self.players) |-> 0],
             pairings |-> <<>>],
            0, first_j(0)))

----------------------------------------------------------------------------
(* The values a specification leaves alone: each specification drives one  *)
(* group of variables and keeps the others at these.                       *)

IdleSelect == ranked = <<>> /\ rule = Keep /\ result = <<>>
IdleArena == args = <<>> /\ arena = <<>> /\ status = "idle" /\ step = <<>>
IdleMatch == ovo = <<>> /\ seen = <<>> /\ played = 0
IdlePlayer == player = <<>> /\ hist = <<>>
IdleMachine == mach = <<>> /\ tally = <<>> /\ call = <<>>
IdleCounter == fault = "none"

----------------------------------------------------------------------------
(* SpecSelect: GeneticStrategy::apply_to_vec on every small list. *)

Entries == (0..MaxTypeId) \X (0..MaxScore)

RankedLists == UNION {[1..n -> Entries] : n \in 0..MaxLen}

Rules == {Keep} \cup {CullingElitism(r, a) : r \in 0..MaxRemove, a \in 0..MaxAdd}

InitSelect ==
    /\ ranked \in RankedLists
    /\ rule \in Rules
    /\ result = <<>>
    /\ IdleArena /\ IdleMatch /\ IdlePlayer /\ IdleMachine /\ IdleCounter

Apply ==
    /\ result = <<>>
    /\ result' = <<apply_to_vec(rule, types_of(ranked))>>
    /\ UNCHANGED <<ranked, rule, arenaVars, matchVars, playerVars, machineVars, counterVars>>

NextSelect == Apply

SpecSelect == InitSelect /\ [][NextSelect]_vars

----------------------------------------------------------------------------
(* SpecArena: Arena::new on arguments, then any number of Arena::play. *)

\* a prototype that has played before it is handed to Arena::new
Used(p) ==
    memorize_last_game(memorize_last_game(p, <<TRUE, FALSE>>, <<-1, 3>>),
                       <<FALSE, FALSE>>, <<0, 0>>)

\* the catalog of the Arena tests
DefaultCatalog ==
    <<CopyCatDefault, AllCheatDefault, AllCooperateDefault, GrudgerDefault,
      DetectiveDefault, KindCopyCatDefault, SimpletonDefault>>

UsedCatalog == [k \in 1..Len(DefaultCatalog) |-> Used(DefaultCatalog[k])]

ShortCatalog == <<Used(CopyCatDefault), AllCheatDefault>>

Catalogs == {DefaultCatalog, UsedCatalog, ShortCatalog}

\* populations hold ids up to Beyond - 1 past the last valid one
Beyond == 1

Populations(catalog) ==
    UNION {[1..n -> 0..(Len(catalog) + Beyond - 1)] : n \in 0..MaxPop}

RoundCounts == {0, 1, MaxRounds}

ArenaArgs ==
    UNION {[machine : {MachineDefault},
            player_constructors : {c},
            players : Populations(c),
            rounds : RoundCounts,
            strategy : Rules] : c \in Catalogs}

InitArena ==
    /\ args \in ArenaArgs
    /\ arena = <<>>
    /\ status = "args"
    /\ step = <<>>
    /\ IdleSelect /\ IdleMatch /\ IdlePlayer /\ IdleMachine /\ IdleCounter

New ==
    /\ status = "args"
    /\ LET r == arena_new(args.machine, args.player_constructors, args.players,
                          args.rounds, args.strategy)
       IN IF r.ok
          THEN arena' = r.arena /\ status' = "ok"
          ELSE arena' = <<>> /\ status' = "err"
    /\ UNCHANGED <<args, step, selectVars, matchVars, playerVars, machineVars, counterVars>>

Play ==
    /\ status = "ok"
    /\ Len(arena.players) <= MaxGrown
    /\ LET r == arena_play(arena)
       IN /\ arena' = r.arena
          /\ status' = IF r.ok THEN "ok" ELSE "panic"
          /\ step' = <<[players |-> arena.players, pairings |-> r.pairings]>>
    /\ UNCHANGED <<args, selectVars, matchVars, playerVars, machineVars, counterVars>>

NextArena == New \/ Play

SpecArena == InitArena /\ [][NextArena]_vars

----------------------------------------------------------------------------
(* SpecMatch: a Match of two fresh players on a machine, round by round. *)

Prototypes == {DefaultCatalog[k] : k \in 1..Len(DefaultCatalog)}

\* a threshold of a MachineRandomizer: 0 or 1
Thresholds == {0, ChanceSteps}

\* a draw of the random generator: k / ChanceSteps, in [0, 1)
Chances == 0..(ChanceSteps - 1)

Machines ==
    {MachineDefault} \cup
    {MachineRandomizerNew(MachineDefault, <<f1, f2>>, <<c1, c2>>) :
        f1 \in Thresholds, f2 \in Thresholds, c1 \in Thresholds, c2 \in Thresholds}

matrix_of(machine) ==
    IF machine.kind = "Machine" THEN machine.matrix ELSE machine.base.matrix

InitMatch ==
    /\ ovo \in [machine : Machines, players : Prototypes \X Prototypes]
    /\ seen = <<>>
    /\ played = 0
    /\ IdleSelect /\ IdleArena /\ IdlePlayer /\ IdleMachine /\ IdleCounter

MatchPlay ==
    /\ played < MaxMatchRounds
    /\ \E chances \in Chances \X Chances :
          /\ ovo' = match_play(ovo, chances)
          /\ seen' = <<match_round(ovo, chances)>>
    /\ played' = played + 1
    /\ UNCHANGED <<selectVars, arenaVars, playerVars, machineVars, counterVars>>

NextMatch == MatchPlay

SpecMatch == InitMatch /\ [][NextMatch]_vars

----------------------------------------------------------------------------
(* SpecPlayer: one player memorizing any sequence of rounds. *)

Players ==
    Prototypes \cup
    {DetectiveNew(<<>>), DetectiveNew(<<FALSE>>), KindCopyCatNew(0), KindCopyCatNew(2)}

InitPlayer ==
    /\ player \in Players
    /\ hist = <<>>
    /\ IdleSelect /\ IdleArena /\ IdleMatch /\ IdleMachine /\ IdleCounter

Memorize ==
    /\ Len(hist) < MaxHist
    /\ \E last_consents \in BOOLEAN \X BOOLEAN :
          /\ player' = memorize_last_game(player, last_consents,
                           get_for_consents(GameMatrixDefault, last_consents))
          /\ hist' = Append(hist, last_consents)
    /\ UNCHANGED <<selectVars, arenaVars, matchVars, machineVars, counterVars>>

Forget ==
    /\ player' = forget_games(player)
    /\ hist' = <<>>
    /\ UNCHANGED <<selectVars, arenaVars, matchVars, machineVars, counterVars>>

NextPlayer == Memorize \/ Forget

SpecPlayer == InitPlayer /\ [][NextPlayer]_vars

----------------------------------------------------------------------------
(* SpecMachine: a base Machine under any sequence of play, play_off_record  *)
(* and reset_scores calls.                                                  *)

\* a matrix whose eight rewards are all different
SkewMatrix ==
    [cc |-> <<1, 2>>, cd |-> <<-3, 4>>, dc |-> <<5, -6>>, dd |-> <<-7, 8>>]

BaseMachines == {MachineDefault, MachineNew(SkewMatrix)}

InitMachine ==
    /\ mach \in BaseMachines
    /\ tally = [sum |-> <<0, 0>>, plays |-> 0]
    /\ call = <<>>
    /\ IdleSelect /\ IdleArena /\ IdleMatch /\ IdlePlayer /\ IdleCounter

MachinePlay ==
    /\ tally.plays < MaxPlays
    /\ \E consents \in BOOLEAN \X BOOLEAN :
          LET r == machine_play(mach, consents, no_chances)
          IN /\ mach' = r.machine
             /\ tally' = [sum |-> <<tally.sum[1] + r.rewards[1],
                                    tally.sum[2] + r.rewards[2]>>,
                          plays |-> tally.plays + 1]
             /\ call' = <<[op |-> "play", consents |-> consents,
                           returned |-> r.rewards, before |-> scores(mach)]>>
    /\ UNCHANGED <<selectVars, arenaVars, matchVars, playerVars, counterVars>>

MachinePlayOffRecord ==
    /\ \E consents \in BOOLEAN \X BOOLEAN :
          call' = <<[op |-> "play_off_record", consents |-> consents,
                     returned |-> play_off_record(mach, consents, no_chances),
                     before |-> scores(mach)]>>
    /\ UNCHANGED <<mach, tally, selectVars, arenaVars, matchVars, playerVars, counterVars>>

MachineResetScores ==
    /\ mach' = reset_scores(mach)
    /\ tally' = [sum |-> <<0, 0>>, plays |-> 0]
    /\ call' = <<[op |-> "reset_scores", consents |-> <<>>,
                  returned |-> <<>>, before |-> scores(mach)]>>
    /\ UNCHANGED <<selectVars, arenaVars, matchVars, playerVars, counterVars>>

NextMachine == MachinePlay \/ MachinePlayOffRecord \/ MachineResetScores

SpecMachine == InitMachine /\ [][NextMachine]_vars

----------------------------------------------------------------------------
(* SpecCounter: a KindCopyCat of any tolerance, usize::MAX included,        *)
(* memorizing any sequence of rounds, under both settings of the overflow   *)
(* checks.                                                                  *)

Tolerances == 0..UsizeMax

InitCounter ==
    /\ player \in {KindCopyCatNew(mistakes_allowed) : mistakes_allowed \in Tolerances}
    /\ hist = <<>>
    /\ fault = "none"
    /\ IdleSelect /\ IdleArena /\ IdleMatch /\ IdleMachine

CounterMemorize ==
    /\ fault # "panic"
    /\ Len(hist) < MaxHist
    /\ \E last_consents \in BOOLEAN \X BOOLEAN, overflow_checks \in BOOLEAN :
          IF increment_overflows(player, last_consents) /\ overflow_checks
          THEN /\ fault' = "panic"
               /\ UNCHANGED <<player, hist>>
          ELSE /\ player' = memorize_last_game(player, last_consents,
                                get_for_consents(GameMatrixDefault, last_consents))
               /\ hist' = Append(hist, last_consents)
               /\ fault' = IF increment_overflows(player, last_consents)
                           THEN "wrapped" ELSE fault
    /\ UNCHANGED <<selectVars, arenaVars, matchVars, machineVars>>

CounterForget ==
    /\ fault # "panic"
    /\ player' = forget_games(player)
    /\ hist' = <<>>
    /\ UNCHANGED <<fault, selectVars, arenaVars, matchVars, machineVars>>

NextCounter == CounterMemorize \/ CounterForget

SpecCounter == InitCounter /\ [][NextCounter]_vars

----------------------------------------------------------------------------
(* Helpers of the properties. *)

Range(s) == {s[k] : k \in 1..Len(s)}

Count(s, x) == Cardinality({k \in 1..Len(s) : s[k] = x})

\* s and t hold the same elements, each as many times
SameBag(s, t) == \A x \in Range(s) \cup Range(t) : Count(s, x) = Count(t, x)

Copies(n, x) == [k \in 1..n |-> x]

\* the scores of a (type, score) list never decrease: worst first, best last
WorstFirst(t) == \A k \in 1..(Len(t) - 1) : t[k][2] <= t[k + 1][2]

\* the scores of a (type, score) list never increase: best first, worst last
BestFirst(t) == \A k \in 1..(Len(t) - 1) : t[k][2] >= t[k + 1][2]

Culling == rule.kind = "CullingElitism"

Applied == result # <<>>

----------------------------------------------------------------------------
(* Properties of SpecArena and SpecSelect: the selection rule. *)

\* C1: once an Arena is constructed, every generation step completes normally,
\* whatever the population size, the rounds and the selection rule; no Arena::play
\* ever panics.
C1_PlayNeverPanics == status # "panic"

\* C2: for every list of length n and every r and a, CullingElitism(r, a)
\* returns a list of length n - min(r, n) + a. It is stated for the non-empty
\* lists: apply_to_vec returns the empty list as it is, whatever a is.
C2_CullingElitismLength ==
    (Applied /\ Culling /\ ranked # <<>>) =>
        /\ result[1].ok
        /\ Len(result[1].vec) =
              Len(ranked) - Min(rule.to_remove, Len(ranked)) + rule.to_add

\* C3: for every non-empty worst-first list L of length n and every r and a,
\* CullingElitism(r, a) removes exactly the first min(r, n) entries of L and adds
\* a copies of its last entry: the output holds L[min(r, n) .. n - 1] and a
\* more copies of L[n - 1], as a multiset.
C3_CullingElitismRemovesWorst ==
    (Applied /\ Culling /\ ranked # <<>> /\ WorstFirst(ranked)) =>
        /\ result[1].ok
        /\ LET L == types_of(ranked)
               n == Len(L)
           IN SameBag(result[1].vec,
                      SubSeq(L, Min(rule.to_remove, n) + 1, n)
                          \o Copies(rule.to_add, L[n]))

\* C4: when the list is sorted from the best type to the worst in score, as the
\* documentation of apply_to_vec asks, CullingElitism(r, a) removes r of the
\* worst-scoring entries (all of them when there are fewer) and adds a copies of
\* a best-scoring type. It is stated for the calls that return.
C4_BestFirstRemovesWorst ==
    (Applied /\ Culling /\ ranked # <<>> /\ BestFirst(ranked) /\ result[1].ok) =>
        LET n == Len(ranked)
            L == types_of(ranked)
        IN \E gone \in SUBSET (1..n) :
              /\ Cardinality(gone) = Min(rule.to_remove, n)
              /\ \A k \in gone : \A m \in (1..n) \ gone :
                     ranked[k][2] <= ranked[m][2]
              /\ \E b \in 1..n :
                    /\ \A m \in 1..n : ranked[m][2] <= ranked[b][2]
                    /\ \A x \in Range(L) \cup Range(result[1].vec) :
                          Count(result[1].vec, x) =
                             Cardinality({k \in (1..n) \ gone : L[k] = x})
                             + (IF x = L[b] THEN rule.to_add ELSE 0)

----------------------------------------------------------------------------
(* Properties of SpecMatch and SpecPlayer. *)

Swap(pair) == <<pair[2], pair[1]>>

\* C5: on any machine, the noisy one included, the decisions a player is given
\* in memorize_last_game are the ones the machine scored: the rewards each
\* player is given are the matrix's rewards for the decisions it is given.
C5_SeenRewardsAreOfSeenConsents ==
    seen # <<>> =>
        /\ seen[1].to_p1.rewards =
              get_for_consents(matrix_of(ovo.machine), seen[1].to_p1.consents)
        /\ seen[1].to_p2.rewards =
              Swap(get_for_consents(matrix_of(ovo.machine), Swap(seen[1].to_p2.consents)))

\* C6: a Detective with the script [C, D, C, C] that has memorized at least 4
\* rounds plays the opponent's last memorized move if the opponent defected in
\* any of rounds 1 to 4, and defects if the opponent defected in none of them.
C6_DetectiveAfterScript ==
    (/\ player # <<>>
     /\ player.kind = "Detective"
     /\ player.analysing_strategy = <<TRUE, FALSE, TRUE, TRUE>>
     /\ Len(hist) >= 4) =>
        cooperation_consent(player) =
            IF \E k \in 1..4 : ~hist[k][2] THEN hist[Len(hist)][2] ELSE FALSE

----------------------------------------------------------------------------
(* Properties of SpecArena. *)

\* the newly constructed player of the same configuration
Fresh(p) ==
    CASE p.kind = "CopyCat" -> CopyCatDefault
      [] p.kind = "AllCooperate" -> AllCooperateDefault
      [] p.kind = "AllCheat" -> AllCheatDefault
      [] p.kind = "Grudger" -> GrudgerDefault
      [] p.kind = "Detective" -> DetectiveNew(p.analysing_strategy)
      [] p.kind = "KindCopyCat" -> KindCopyCatNew(p.mistakes_allowed)
      [] p.kind = "Simpleton" -> SimpletonDefault

Constructed == status \in {"ok", "panic"}

Stepped == Constructed /\ step # <<>>

RECURSIVE SumSeq(_)
SumSeq(s) == IF s = <<>> THEN 0 ELSE s[1] + SumSeq(Tail(s))

\* the pairings of the last step in which positions k and m met
Met(k, m) ==
    {x \in 1..Len(step[1].pairings) :
        {step[1].pairings[x].i, step[1].pairings[x].j} = {k, m}}

\* what position k scored in pairing e
ScoreIn(e, k) == IF e.i = k THEN e.results[1] ELSE e.results[2]

\* what position k scored against position m in the last step
ScoreAgainst(k, m) == ScoreIn(step[1].pairings[CHOOSE x \in Met(k, m) : TRUE], k)

\* C7: Arena::new returns UnknownPlayer if and only if some entry of the
\* population is >= the catalog length; otherwise the Arena holds the population
\* and the rounds as given and every prototype of the catalog is as newly made.
C7_ArenaNew ==
    (status \in {"ok", "err", "panic"}) =>
        /\ (status = "err") <=>
              (\E k \in 1..Len(args.players) :
                  args.players[k] >= Len(args.player_constructors))
        /\ Constructed =>
              /\ arena.rounds = args.rounds
              /\ (step = <<>> => arena.players = args.players)
              /\ Len(arena.player_constructors) = Len(args.player_constructors)
              /\ \A k \in 1..Len(args.player_constructors) :
                    arena.player_constructors[k] = Fresh(args.player_constructors[k])

\* an Arena was constructed from prototypes that had played before
C7_Witness ==
    /\ status = "ok"
    /\ step = <<>>
    /\ args.players # <<>>
    /\ arena.player_constructors # args.player_constructors

\* C8: in every state of a constructed Arena, after any number of steps under
\* any selection rule, every entry of the population is below the catalog length.
C8_PopulationInCatalog ==
    Constructed =>
        \A k \in 1..Len(arena.players) :
            arena.players[k] < Len(arena.player_constructors)

\* a step under CullingElitism has added clones to the population
C8_Witness ==
    /\ Stepped
    /\ status = "ok"
    /\ arena.strategy.kind = "CullingElitism"
    /\ Len(arena.players) > Len(step[1].players)

\* C9: after a step played by population P the scores have |P| entries, the
\* score of position k is the sum over the other positions m of what k scored in
\* its pairing with m, and the scores add up to the sum of both sides' results
\* over all pairings.
C9_ScoresArePairingSums ==
    Stepped =>
        LET n == Len(step[1].players)
            log == step[1].pairings
        IN /\ Len(arena.scores) = n
           /\ \A k \in 0..(n - 1) : \A m \in (0..(n - 1)) \ {k} : Met(k, m) # {}
           /\ \A k \in 0..(n - 1) :
                 arena.scores[k + 1] =
                    SumSeq([m \in 1..n |->
                               IF m - 1 = k THEN 0 ELSE ScoreAgainst(k, m - 1)])
           /\ SumSeq(arena.scores) =
                 SumSeq([x \in 1..Len(log) |-> log[x].results[1] + log[x].results[2]])

\* a step of three positions has left unequal scores
C9_Witness ==
    /\ Stepped
    /\ Len(step[1].players) = 3
    /\ arena.rounds > 1
    /\ \E k, m \in 1..3 : arena.scores[k] # arena.scores[m]
    /\ \E x \in 1..3 : step[1].pairings[x].results[1] # step[1].pairings[x].results[2]

\* C10: a step of a population of n plays exactly n * (n - 1) / 2 matches, one
\* for each pair of positions i < j, each of the configured rounds; no position
\* meets itself and no pair meets twice.
C10_RoundRobin ==
    Stepped =>
        LET n == Len(step[1].players)
            log == step[1].pairings
        IN /\ 2 * Len(log) = n * (n - 1)
           /\ \A x \in 1..Len(log) :
                 /\ 0 <= log[x].i /\ log[x].i < log[x].j /\ log[x].j < n
                 /\ log[x].rounds = arena.rounds
           /\ \A x, y \in 1..Len(log) :
                 x # y => <<log[x].i, log[x].j>> # <<log[y].i, log[y].j>>
           /\ \A i \in 0..(n - 1) : \A j \in (i + 1)..(n - 1) :
                 \E x \in 1..Len(log) : log[x].i = i /\ log[x].j = j

\* a step of three positions has played its three matches
C10_Witness ==
    /\ Stepped
    /\ Len(step[1].players) = 3
    /\ Len(step[1].pairings) = 3
    /\ arena.rounds = MaxRounds

----------------------------------------------------------------------------
(* Properties of SpecMatch: the rounds of a Match. *)

\* C11: in every round both players are asked for their consent, then each
\* memorizes the round once, from its own side: player 1 is given (d1, d2) and
\* (r1, r2), player 2 is given (d2, d1) and (r2, r1), where (d1, d2) are the
\* consents of the round and (r1, r2) the rewards the machine returned and
\* added to its totals.
C11_BroadcastBySide ==
    [][LET d == <<cooperation_consent(ovo.players[1]),
                  cooperation_consent(ovo.players[2])>>
           r == <<scores(ovo'.machine)[1] - scores(ovo.machine)[1],
                  scores(ovo'.machine)[2] - scores(ovo.machine)[2]>>
       IN /\ seen'[1].to_p1 = [consents |-> d, rewards |-> r]
          /\ seen'[1].to_p2 = [consents |-> Swap(d), rewards |-> Swap(r)]
          /\ ovo'.players = <<memorize_last_game(ovo.players[1], d, r),
                              memorize_last_game(ovo.players[2], Swap(d), Swap(r))>>
      ]_vars

\* a round in which the first player cooperated and the second defected
C11_Witness ==
    /\ seen # <<>>
    /\ seen[1].to_p1 = [consents |-> <<TRUE, FALSE>>, rewards |-> <<-1, 3>>]
    /\ seen[1].to_p2 = [consents |-> <<FALSE, TRUE>>, rewards |-> <<3, -1>>]

Kinds(k1, k2) ==
    ovo.players[1].kind = k1 /\ ovo.players[2].kind = k2

\* C12: a Match of fresh default players on the default machine has, after n
\* rounds, the scores (2n, 2n) for AllCooperate and AllCooperate, (0, 0) for
\* AllCheat and AllCheat, (3n, -n) for AllCheat and AllCooperate, (2n, 2n) for
\* CopyCat and CopyCat and (2n, 2n) for AllCooperate and CopyCat.
C12_DefaultScores ==
    (ovo # <<>> /\ ovo.machine.kind = "Machine") =>
        /\ Kinds("AllCooperate", "AllCooperate") =>
              scores(ovo.machine) = <<2 * played, 2 * played>>
        /\ Kinds("AllCheat", "AllCheat") => scores(ovo.machine) = <<0, 0>>
        /\ Kinds("AllCheat", "AllCooperate") =>
              scores(ovo.machine) = <<3 * played, -played>>
        /\ Kinds("CopyCat", "CopyCat") =>
              scores(ovo.machine) = <<2 * played, 2 * played>>
        /\ Kinds("AllCooperate", "CopyCat") =>
              scores(ovo.machine) = <<2 * played, 2 * played>>

\* AllCheat has played five rounds against AllCooperate on the default machine
C12_Witness ==
    /\ ovo # <<>>
    /\ ovo.machine.kind = "Machine"
    /\ Kinds("AllCheat", "AllCooperate")
    /\ played = 5
    /\ scores(ovo.machine) = <<15, -5>>

----------------------------------------------------------------------------
(* Properties of SpecPlayer: Grudger and KindCopyCat. *)

\* the rounds memorized since the last forget_games in which the enemy defected
Defections == {k \in 1..Len(hist) : ~hist[k][2]}

\* C13: Grudger cooperates until the first enemy defection it memorizes; from
\* then on it defects after every later round, whatever the enemy does, until
\* forget_games is called, after which it cooperates again.
C13_GrudgerNeverForgives ==
    player.kind = "Grudger" =>
        (cooperation_consent(player) <=> Defections = {})

\* a Grudger that was cheated and then met cooperation twice
C13_Witness ==
    /\ player.kind = "Grudger"
    /\ Len(hist) = 4
    /\ Defections = {2}
    /\ ~cooperation_consent(player)

\* the length of the run of enemy defections that ends the memorized rounds
DefectionRun ==
    LET cooperations == {k \in 1..Len(hist) : hist[k][2]}
        last == IF cooperations = {} THEN 0
                ELSE CHOOSE k \in cooperations : \A l \in cooperations : l <= k
    IN Len(hist) - last

\* C14: KindCopyCat with mistakes_allowed = k cooperates when the enemy
\* defections that end the memorized rounds are at most k in a row and defects
\* when they are k + 1 or more; one enemy cooperation makes it cooperate again
\* at once.
C14_KindCopyCatTolerance ==
    player.kind = "KindCopyCat" =>
        /\ cooperation_consent(player) <=> DefectionRun <= player.mistakes_allowed
        /\ (hist # <<>> /\ hist[Len(hist)][2]) => cooperation_consent(player)

\* a KindCopyCat allowing one mistake, cheated three times in a row and then
\* met with one cooperation
C14_Witness ==
    /\ player.kind = "KindCopyCat"
    /\ player.mistakes_allowed = 1
    /\ Len(hist) = 4
    /\ Defections = {1, 2, 3}
    /\ cooperation_consent(player)

----------------------------------------------------------------------------
(* Properties of SpecArena: the generation step. *)

\* C16: a step of an Arena whose population is empty does nothing, under Keep
\* and under CullingElitism(r, a) with any r and a, a > 0 included: it plays no
\* match, it leaves the scores empty and the population empty, and it changes
\* nothing else of the Arena.
C16_EmptyStepIsNoOp ==
    [][(status = "ok" /\ arena.players = <<>>) =>
          /\ status' = "ok"
          /\ step'[1].pairings = <<>>
          /\ arena'.scores = <<>>
          /\ arena'.players = <<>>
          /\ arena' = [arena EXCEPT !.scores = <<>>]
      ]_vars

\* an empty population has made a step under a rule that removes and adds
C16_Witness ==
    /\ Stepped
    /\ step[1].players = <<>>
    /\ arena.strategy.kind = "CullingElitism"
    /\ arena.strategy.to_remove > 0
    /\ arena.strategy.to_add > 0
    /\ arena.players = <<>>

\* C17: Keep returns the sorted list it is given as it is, and an Arena using
\* Keep has, after any number of steps, a population of the size of the initial
\* one and with the same type ids, each as many times.
C17_KeepKeepsPopulation ==
    (Constructed /\ arena.strategy.kind = "Keep") =>
        /\ status = "ok"
        /\ Len(arena.players) = Len(args.players)
        /\ SameBag(arena.players, args.players)
        /\ Stepped =>
              arena.players = types_of(sorted_pairs(step[1].players, arena.scores))

\* a step under Keep has put the population in another order
C17_Witness ==
    /\ Stepped
    /\ arena.strategy.kind = "Keep"
    /\ Len(arena.players) = 2
    /\ arena.players # args.players

\* the scores of a Match of its own between fresh players of types a and b of
\* the catalog, on a machine with no totals, over the rounds of the Arena
Duel(a, b) ==
    scores(play_rounds([machine |-> reset_scores(args.machine),
                        players |-> <<Fresh(args.player_constructors[a + 1]),
                                      Fresh(args.player_constructors[b + 1])>>],
                       args.rounds, 0).ovo.machine)

\* what the individual at position k of population P scores against the others
OwnScore(P, k) ==
    SumSeq([m \in 1..Len(P) |->
               IF m - 1 = k THEN 0
               ELSE IF k < m - 1 THEN Duel(P[k + 1], P[m])[1]
               ELSE Duel(P[m], P[k + 1])[2]])

\* C18 as claimed: in every state of a constructed Arena, after any number of
\* steps, the scores have one entry for each member of the current population
\* and entry k is the score of the individual at position k of it.
C18_ScoresAlignedWithPopulation ==
    Constructed =>
        /\ Len(arena.scores) = Len(arena.players)
        /\ \A k \in 1..Len(arena.players) :
              arena.scores[k] = OwnScore(arena.players, k - 1)

\* C18, amended: a constructed Arena has no scores before its first step; after
\* a step the scores have one entry for each member of the population that
\* played that step, in the order it had when the step began, and entry k is the
\* score of the individual at position k of that population. The population
\* that the selection rule leaves is not what the scores follow.
C18_ScoresAlignedWithPlayed ==
    Constructed =>
        IF step = <<>>
        THEN arena.scores = <<>>
        ELSE /\ Len(arena.scores) = Len(step[1].players)
             /\ \A k \in 1..Len(step[1].players) :
                   arena.scores[k] = OwnScore(step[1].players, k - 1)

\* a step has left more individuals than scores, and the scores are not all equal
C18_Witness ==
    /\ Stepped
    /\ status = "ok"
    /\ Len(arena.scores) = 2
    /\ arena.scores[1] # arena.scores[2]
    /\ Len(arena.players) > Len(arena.scores)
    /\ arena.rounds = MaxRounds

\* the rank, from 1 for the worst, of position p of population P with scores sc:
\* lower scores come first, and among equal scores earlier positions come first
RankOf(P, sc, p) ==
    1 + Cardinality({q \in 1..Len(P) :
                        sc[q] < sc[p] \/ (sc[q] = sc[p] /\ q < p)})

\* 13 individuals of type 0 followed by 12 of type 5, all with the score 480,
\* ranked and selected by CullingElitism(5, 5), as in tests::test_arena_1_step
TiedExample ==
    apply_to_vec(CullingElitism(5, 5),
        types_of(sorted_pairs([k \in 1..25 |-> IF k <= 13 THEN 0 ELSE 5],
                              [k \in 1..25 |-> 480])))

\* C19: the ranking of a step is the stable ascending sort by score: lower
\* scores first and, among equal scores, earlier positions of the population
\* first. So a CullingElitism(r, a) step removes the min(r, n) lowest ranks,
\* tied individuals at earlier positions before those at later ones, and adds a
\* clones of the type at the highest rank, the last position among the highest
\* scorers; 13 of type 0 and then 12 of type 5, all tied, give 8 of type 0 and
\* 17 of type 5 under CullingElitism(5, 5). What is removed and cloned is
\* stated for the steps that return.
C19_StableRanking ==
    /\ TiedExample.ok
    /\ Len(TiedExample.vec) = 25
    /\ Count(TiedExample.vec, 0) = 8
    /\ Count(TiedExample.vec, 5) = 17
    /\ Stepped =>
         LET P == step[1].players
             sc == arena.scores
             n == Len(P)
         IN /\ \A p \in 1..n :
                  sorted_pairs(P, sc)[RankOf(P, sc, p)] = <<P[p], sc[p]>>
            /\ (status = "ok" /\ arena.strategy.kind = "CullingElitism" /\ n > 0) =>
                  \A x \in Range(P) \cup Range(arena.players) :
                      Count(arena.players, x) =
                          Cardinality({p \in 1..n :
                              /\ P[p] = x
                              /\ RankOf(P, sc, p) > Min(arena.strategy.to_remove, n)})
                          + (IF \E p \in 1..n : RankOf(P, sc, p) = n /\ P[p] = x
                             THEN arena.strategy.to_add ELSE 0)

\* two individuals of different types have tied; the one at the earlier
\* position was removed and the type of the later one was cloned
C19_Witness ==
    /\ Stepped
    /\ status = "ok"
    /\ arena.rounds > 0
    /\ arena.strategy = CullingElitism(1, 1)
    /\ Len(step[1].players) = 2
    /\ step[1].players[1] # step[1].players[2]
    /\ arena.scores[1] = arena.scores[2]
    /\ arena.players = <<step[1].players[2], step[1].players[2]>>

\* C20: every pairing of a step has the scores of a Match of its own between
\* fresh players of the two types, on a machine with no totals, over the rounds
\* of the Arena, whatever pairings and steps were played before it; and no step
\* changes a prototype of the catalog.
C20_PairingsAreIndependent ==
    Constructed =>
        /\ arena.player_constructors =
              [k \in 1..Len(args.player_constructors) |->
                  Fresh(args.player_constructors[k])]
        /\ Stepped =>
              \A x \in 1..Len(step[1].pairings) :
                  step[1].pairings[x].results =
                      Duel(step[1].players[step[1].pairings[x].i + 1],
                           step[1].players[step[1].pairings[x].j + 1])

\* a second step, of three pairings, the last after pairings that left totals in
\* the machine, in an Arena made from prototypes that had played before
C20_Witness ==
    /\ Stepped
    /\ Len(step[1].players) = 3
    /\ Len(args.players) = 2
    /\ Len(step[1].pairings) = 3
    /\ arena.rounds = MaxRounds
    /\ step[1].pairings[1].results # <<0, 0>>
    /\ step[1].pairings[2].results # <<0, 0>>
    /\ step[1].pairings[3].results # step[1].pairings[2].results
    /\ arena.player_constructors # args.player_constructors

----------------------------------------------------------------------------
(* Properties of SpecMachine. *)

\* the entry of a matrix for a pair of consents
Lookup(matrix, consents) ==
    IF consents[1]
    THEN (IF consents[2] THEN matrix.cc ELSE matrix.cd)
    ELSE (IF consents[2] THEN matrix.dc ELSE matrix.dd)

\* C15: after any sequence of play, play_off_record and reset_scores calls on a
\* base Machine, scores() is the sum, side by side, of the rewards that the play
\* calls returned since the last reset_scores (or since construction); play
\* returns the matrix entry of its consents and adds it to the scores,
\* play_off_record returns it and leaves the scores as they were, and
\* reset_scores sets them to (0, 0).
C15_ScoresAreSumOfPlays ==
    /\ scores(mach) = tally.sum
    /\ call # <<>> =>
          /\ call[1].op = "play" =>
                /\ call[1].returned = Lookup(mach.matrix, call[1].consents)
                /\ scores(mach) = <<call[1].before[1] + call[1].returned[1],
                                    call[1].before[2] + call[1].returned[2]>>
          /\ call[1].op = "play_off_record" =>
                /\ call[1].returned = Lookup(mach.matrix, call[1].consents)
                /\ scores(mach) = call[1].before
          /\ call[1].op = "reset_scores" => scores(mach) = <<0, 0>>

\* play_off_record was called after three play calls, and the scores are still
\* the sum of those three
C15_Witness ==
    /\ call # <<>>
    /\ call[1].op = "play_off_record"
    /\ call[1].returned = <<-3, 4>>
    /\ tally.plays = 3
    /\ scores(mach) = <<3, 6>>

----------------------------------------------------------------------------
(* Properties of SpecArena: scores and seats. *)

----------------------------------------------------------------------------
(* Properties of SpecMatch: what a cheater gains, and the seats. *)

\* C22: on the default machine, after n rounds between AllCheat, first, and a
\* fresh default player, the scores are (3, -1) against CopyCat for every
\* n >= 1, (3 * min(n, 2), -min(n, 2)) against KindCopyCat, (3 * ceil(n / 2),
\* -ceil(n / 2)) against Simpleton and (9, -3) against Detective for n = 5; and
\* for n = 5 AllCooperate and Simpleton score (10, 10), AllCooperate and
\* Detective (4, 12), CopyCat and Detective (8, 8).
C22_BoundedExploitation ==
    (ovo # <<>> /\ ovo.machine.kind = "Machine") =>
        /\ (Kinds("AllCheat", "CopyCat") /\ played >= 1) =>
              scores(ovo.machine) = <<3, -1>>
        /\ Kinds("AllCheat", "KindCopyCat") =>
              scores(ovo.machine) = <<3 * Min(played, 2), -Min(played, 2)>>
        /\ Kinds("AllCheat", "Simpleton") =>
              scores(ovo.machine) =
                  <<3 * ((played + 1) \div 2), -((played + 1) \div 2)>>
        /\ (Kinds("AllCheat", "Detective") /\ played = 5) =>
              scores(ovo.machine) = <<9, -3>>
        /\ (Kinds("AllCooperate", "Simpleton") /\ played = 5) =>
              scores(ovo.machine) = <<10, 10>>
        /\ (Kinds("AllCooperate", "Detective") /\ played = 5) =>
              scores(ovo.machine) = <<4, 12>>
        /\ (Kinds("CopyCat", "Detective") /\ played = 5) =>
              scores(ovo.machine) = <<8, 8>>

\* AllCheat has played five rounds against Simpleton on the default machine
C22_Witness ==
    /\ ovo # <<>>
    /\ ovo.machine.kind = "Machine"
    /\ Kinds("AllCheat", "Simpleton")
    /\ played = 5
    /\ scores(ovo.machine) = <<9, -3>>

----------------------------------------------------------------------------
(* Properties of SpecCounter and SpecPlayer: one player's memory. *)

\* C23: for every tolerance k, usize::MAX included, and every sequence of
\* rounds, KindCopyCat's counter of defections in a row never exceeds k + 1, is
\* not incremented while KindCopyCat does not consent, and its increment never
\* overflows.
C23_CounterNeverOverflows ==
    [][/\ fault' = "none"
       /\ player'.cheated_in_row <= player'.mistakes_allowed + 1
       /\ ~cooperation_consent(player) =>
             player'.cheated_in_row \in {0, player.cheated_in_row}
      ]_vars

\* C24: CopyCat consents when it has memorized no round, and otherwise consents
\* exactly when the enemy consented in the last round it memorized, whatever
\* its own consents and the earlier rounds were.
C24_CopyCatCopiesLast ==
    player.kind = "CopyCat" =>
        (cooperation_consent(player) <=>
            (hist = <<>> \/ hist[Len(hist)][2]))

\* a CopyCat defects after the enemy's defection in the last round, though it
\* consented itself and the enemy had always consented before
C24_Witness ==
    /\ player.kind = "CopyCat"
    /\ hist = <<<<FALSE, TRUE>>, <<TRUE, TRUE>>, <<TRUE, FALSE>>>>
    /\ ~cooperation_consent(player)

\* C25: Simpleton consents at first; after each round it memorizes, it consents
\* exactly when the round's own consent was given and the enemy consented, or
\* the own consent was not given and the enemy did not consent; the own consent
\* is the one the round reports, whatever Simpleton had decided.
C25_SimpletonFollowsRecord ==
    player.kind = "Simpleton" =>
        (cooperation_consent(player) <=>
            (hist = <<>> \/ (hist[Len(hist)][1] <=> hist[Len(hist)][2])))

\* a Simpleton that would consent was reported as not consenting against an
\* enemy that did not consent, and consents next
C25_Witness ==
    /\ player.kind = "Simpleton"
    /\ hist = <<<<TRUE, TRUE>>, <<FALSE, FALSE>>>>
    /\ cooperation_consent(player)

\* C26: for every built-in player and after any sequence of memorized rounds,
\* forget_games gives the newly constructed player of the same configuration
\* (the same script for Detective, the empty one included, the same tolerance
\* for KindCopyCat), so all it does afterwards is what a new instance does.
C26_ForgetIsFresh ==
    /\ forget_games(player) = Fresh(player)
    /\ Fresh(player) \in Players
    /\ hist = <<>> => player = Fresh(player)

\* a Detective past its script that was cheated while analysing
C26_Witness ==
    /\ player.kind = "Detective"
    /\ Len(hist) = MaxHist
    /\ player.been_cheated_in_analysing
    /\ player.analysing_stage = 4
    /\ ~player.next_strategy
    /\ forget_games(player) = DetectiveDefault

----------------------------------------------------------------------------
(* Properties of SpecArena and SpecMatch: types and seats. *)

\* C27: under every selection rule no step brings a type into the population:
\* every type present after a step was present before it, so a type without
\* members in one generation has none in any later one.
C27_NoTypeEnters ==
    [][status = "ok" =>
          /\ Range(arena'.players) \subseteq Range(arena.players)
          /\ Range(arena'.players) \subseteq Range(args.players)
      ]_vars

\* a second step has cloned a type after an earlier step removed the other type
C27_Witness ==
    /\ Stepped
    /\ status = "ok"
    /\ Cardinality(Range(args.players)) = 2
    /\ Cardinality(Range(step[1].players)) = 1
    /\ Len(arena.players) > Len(step[1].players)
    /\ Range(arena.players) = Range(step[1].players)

\* C28: on the default machine, whose matrix is symmetric, the seats do not
\* matter: after n rounds between fresh players A, first, and B, second, the
\* scores are (x, y) exactly when n rounds between fresh B, first, and A,
\* second, give (y, x).
C28_SeatSymmetry ==
    (ovo # <<>> /\ ovo.machine.kind = "Machine") =>
        scores(play_rounds([machine |-> MachineDefault,
                            players |-> <<Fresh(ovo.players[2]),
                                          Fresh(ovo.players[1])>>],
                           played, 0).ovo.machine)
            = Swap(scores(ovo.machine))

\* Detective, first, and Simpleton, second, have unequal scores after five rounds
C28_Witness ==
    /\ ovo # <<>>
    /\ ovo.machine.kind = "Machine"
    /\ Kinds("Detective", "Simpleton")
    /\ played = 5
    /\ scores(ovo.machine)[1] # scores(ovo.machine)[2]

====
